---- MODULE Spec2Model ----
(***************************************************************************)
(* Model of the two semantic document stores of the financial assistant:   *)
(*   - VectorStore (vector_store/embed_and_store.py): inner-product FAISS  *)
(*     index + metadata list, persisted to two files;                      *)
(*   - the retriever service (retriever_agent/retriever_service.py): a     *)
(*     module-level L2 FAISS index + doc_store list served by sync FastAPI *)
(*     endpoints, which run on a thread pool.                              *)
(***************************************************************************)
EXTENDS Integers, Sequences, FiniteSets, TLC

\* ------------------------------------------------------------------ bounds
MaxBatch == 2
MaxVecs == 2
MaxK == 2
MaxRequests == 3
MaxCompanies == 2

\* ------------------------------------------------------- embedder adapter
Texts == {"a", "b"}

Dim == 2

Unit == 5

\* raw (un-normalised) sentence embedding of a text: deterministic per text
RawEmbed(t) == IF t = "a" THEN <<10, 0>> ELSE <<3, 4>>

\* the embedding models a VectorStore can be constructed with: the default
\* one and one whose sentence embeddings have another dimension
DefaultModel == "all-MiniLM-L6-v2"

Models == {DefaultModel, "other-model"}

ModelDim(model) == IF model = DefaultModel THEN Dim ELSE 1

RawEmbedOf(model, t) ==
    IF model = DefaultModel THEN RawEmbed(t)
    ELSE IF t = "a" THEN <<4>> ELSE <<3>>

RECURSIVE DotUpTo(_, _, _)
DotUpTo(v, w, n) == IF n = 0 THEN 0 ELSE v[n] * w[n] + DotUpTo(v, w, n - 1)

Dot(v, w) == DotUpTo(v, w, Len(v))

ISqrt(n) == CHOOSE r \in 0..n : r * r <= n /\ (r + 1) * (r + 1) > n

\* normalize_embeddings=True: scale to unit length (Unit stands for 1.0)
Normalize(v) == [i \in 1..Len(v) |-> (v[i] * Unit) \div ISqrt(Dot(v, v))]

\* embedding_model.encode(docs, normalize_embeddings=True)
EncodeNormalized(model, docs) ==
    [i \in 1..Len(docs) |-> Normalize(RawEmbedOf(model, docs[i]))]

\* embedder.encode(docs, convert_to_numpy=True)
Encode(docs) == [i \in 1..Len(docs) |-> RawEmbed(docs[i])]

\* ------------------------------------------------------------ FAISS index
L2Dist(v, w) == Dot([i \in 1..Len(v) |-> v[i] - w[i]], [i \in 1..Len(v) |-> v[i] - w[i]])

Score(metric, v, q) == IF metric = "L2" THEN L2Dist(v, q) ELSE Dot(v, q)

\* position i is ranked before position j: best score first; a flat index
\* scans the vectors in insertion order, so the lower position wins a tie
Before(metric, vecs, q, i, j) ==
    LET si == Score(metric, vecs[i], q)
        sj == Score(metric, vecs[j], q)
    IN  \/ (IF metric = "L2" THEN si < sj ELSE si > sj)
        \/ (si = sj /\ i < j)

RankOf(metric, vecs, q, i) ==
    Cardinality({j \in 1..Len(vecs) : Before(metric, vecs, q, j, i)}) + 1

\* score FAISS reports for a missing neighbour (+inf for L2, -inf for IP)
PadScore(metric) == IF metric = "L2" THEN 1000 ELSE -1000

\* index.search(q, k): exactly k (score, label) pairs, labels 0-based,
\* padded with label -1 when the index holds fewer than k vectors
IndexSearch(metric, vecs, q, k) ==
    [r \in 1..k |->
        IF r <= Len(vecs)
        THEN LET i == CHOOSE p \in 1..Len(vecs) : RankOf(metric, vecs, q, p) = r
             IN  <<Score(metric, vecs[i], q), i - 1>>
        ELSE <<PadScore(metric), -1>>]

\* Python list indexing: negative indices count from the end
PyInRange(list, i) == i >= -Len(list) /\ i < Len(list)

PyGet(list, i) == IF i >= 0 THEN list[i + 1] ELSE list[Len(list) + i + 1]

\* ------------------------------------------------------ persisted artifacts
Absent == [kind |-> "absent"]

Truncated == [kind |-> "truncated"]

RECURSIVE Flatten(_)
Flatten(vecs) == IF vecs = <<>> THEN <<>> ELSE Head(vecs) \o Flatten(Tail(vecs))

\* faiss.write_index: header (d, ntotal) followed by the contiguous codes
WriteIndex(idx) ==
    [kind |-> "faiss", d |-> idx.d, ntotal |-> Len(idx.vecs), codes |-> Flatten(idx.vecs)]

\* faiss.read_index: rebuilds the vectors from the contiguous codes
ReadIndex(blob) ==
    [present |-> TRUE, d |-> blob.d,
     vecs |-> [i \in 1..blob.ntotal |-> SubSeq(blob.codes, (i - 1) * blob.d + 1, i * blob.d)]]

PickleDump(metadata) == [kind |-> "pkl", items |-> metadata]

PickleLoad(blob) == blob.items


\* ------------------------------------------------------------------- state
VARIABLES
    program,      \* which entry point this run executes
    vsUp,         \* the process that owns the VectorStore object is running
    vsModel,      \* embedding_model_name the VectorStore was constructed with
    vsIndex,      \* VectorStore.index (present = FALSE models None)
    vsMetadata,   \* VectorStore.metadata
    diskIndex,    \* file at index_path
    diskMeta,     \* file at metadata_path
    vsResult,     \* outcome of the last VectorStore call
    index,        \* retriever_service.index: the vectors of the IndexFlatL2
    doc_store,    \* retriever_service.doc_store
    rsPc,         \* position of each worker thread inside its endpoint
    rsLocal,      \* local variables of each worker thread
    rsResp,       \* last HTTP response produced by each worker thread
    rsServed,     \* number of requests accepted so far
    apiReq,       \* api_service: companies of the last request
    apiResp,      \* api_service: its last HTTP response
    orPc,         \* orchestrator: the downstream call process_request is at
    orReq,        \* orchestrator: form fields of the request being processed
    orLocal,      \* orchestrator: local variables of process_request
    orCalls,      \* orchestrator: downstream calls made for this request
    orResp        \* orchestrator: response to the request

vsVars == <<vsUp, vsModel, vsIndex, vsMetadata, diskIndex, diskMeta, vsResult>>

rsVars == <<index, doc_store, rsPc, rsLocal, rsResp, rsServed>>

apiVars == <<apiReq, apiResp>>

orVars == <<orPc, orReq, orLocal, orCalls, orResp>>

vars == <<program, vsUp, vsModel, vsIndex, vsMetadata, diskIndex, diskMeta, vsResult,
          index, doc_store, rsPc, rsLocal, rsResp, rsServed,
          apiReq, apiResp, orPc, orReq, orLocal, orCalls, orResp>>

\* -------------------------------------------------------------- input sets
RECURSIVE SeqsUpTo(_, _)
SeqsUpTo(S, n) ==
    IF n = 0 THEN {<<>>}
    ELSE LET shorter == SeqsUpTo(S, n - 1)
         IN  shorter \cup {Append(s, x) : s \in {t \in shorter : Len(t) = n - 1}, x \in S}

DocBatches == SeqsUpTo(Texts, MaxBatch)

\* a metadata dict is a set of <<key, value>> pairs
EmptyDict == {}

TextDict(t) == {<<"text", t>>}

DictHas(d, k) == \E p \in d : p[1] = k

DictGet(d, k, default) == IF DictHas(d, k) THEN (CHOOSE p \in d : p[1] = k)[2] ELSE default

\* the metadatas argument: None, or a list of dicts of any length (lists of
\* text-carrying dicts are what add_texts_with_metadata passes)
MetadatasArgs ==
    {[given |-> FALSE, list |-> <<>>]}
        \cup {[given |-> TRUE, list |-> l] : l \in SeqsUpTo({EmptyDict}, MaxBatch)}

TopKs == 0..MaxK

\* ------------------------------------------------------------- VectorStore
NoIndex == [present |-> FALSE, d |-> 0, vecs |-> <<>>]

\* outcome of a call: n echoes the call's size argument (len(docs) or
\* top_k), q the query text of a query that went through index.search
NoResult ==
    [op |-> "none", n |-> 0, q |-> "", status |-> "none", err |-> "none", results |-> <<>>]

Ok(op, n) ==
    [op |-> op, n |-> n, q |-> "", status |-> "ok", err |-> "none", results |-> <<>>]

Err(op, n, kind) ==
    [op |-> op, n |-> n, q |-> "", status |-> "error", err |-> kind, results |-> <<>>]

AddOps == {"add_documents", "add_texts_with_metadata"}

NTotal(idx) == Len(idx.vecs)

\* _load that builds an empty index when there is nothing to read
Load_CreatesEmptyIndex(dIndex, dMeta) ==
    IF dIndex.kind # "absent" /\ dMeta.kind # "absent"
    THEN IF dIndex.kind = "faiss" /\ dMeta.kind = "pkl"
         THEN <<ReadIndex(dIndex), PickleLoad(dMeta)>>
         ELSE <<NoIndex, <<>>>>
    ELSE <<[present |-> TRUE, d |-> Dim, vecs |-> <<>>], <<>>>>

\* _load that reads whichever file is there
Load_ReadsSurvivor(dIndex, dMeta) ==
    IF dIndex.kind # "absent" /\ dMeta.kind # "absent"
    THEN IF dIndex.kind = "faiss" /\ dMeta.kind = "pkl"
         THEN <<ReadIndex(dIndex), PickleLoad(dMeta)>>
         ELSE <<NoIndex, <<>>>>
    ELSE <<IF dIndex.kind = "faiss" THEN ReadIndex(dIndex) ELSE NoIndex,
           IF dMeta.kind = "pkl" THEN PickleLoad(dMeta) ELSE <<>>>>

\* VectorStore._load: the pair <<index, metadata>> a new process starts with
Load(dIndex, dMeta) ==
    IF dIndex.kind # "absent" /\ dMeta.kind # "absent"
    THEN IF dIndex.kind = "faiss" /\ dMeta.kind = "pkl"
         THEN <<ReadIndex(dIndex), PickleLoad(dMeta)>>
         ELSE <<NoIndex, <<>>>>
    ELSE <<NoIndex, <<>>>>

SaveFates ==
    {"ok", "write_index_fail", "pickle_fail",
     "crash_in_write_index", "crash_after_write_index", "crash_in_pickle"}

\* _save that writes the index file and forgets the metadata file
Save_SkipsMetadata(idx, metadata, dIndex, dMeta, fate) ==
    IF ~idx.present THEN <<dIndex, dMeta>>
    ELSE CASE fate = "write_index_fail" -> <<dIndex, dMeta>>
           [] fate = "crash_in_write_index" -> <<Truncated, dMeta>>
           [] fate \in {"pickle_fail", "crash_in_pickle"} -> <<WriteIndex(idx), Truncated>>
           [] OTHER -> <<WriteIndex(idx), dMeta>>

\* VectorStore._save: the files <<index file, metadata file>> it leaves.
\* Both files are written in place, the index file first; a write that is
\* interrupted leaves a truncated file.
Save(idx, metadata, dIndex, dMeta, fate) ==
    IF ~idx.present THEN <<dIndex, dMeta>>
    ELSE CASE fate = "write_index_fail" -> <<dIndex, dMeta>>
           [] fate = "crash_in_write_index" -> <<Truncated, dMeta>>
           [] fate = "crash_after_write_index" -> <<WriteIndex(idx), dMeta>>
           [] fate \in {"pickle_fail", "crash_in_pickle"} -> <<WriteIndex(idx), Truncated>>
           [] OTHER -> <<WriteIndex(idx), PickleDump(metadata)>>

AddFates == {"encode_fail", "add_fail"} \cup SaveFates

CrashFates == {"crash_in_write_index", "crash_after_write_index", "crash_in_pickle"}

\* index created on first use: faiss.IndexFlatIP(dim)
EnsureIndex(idx, dim) ==
    IF idx.present THEN idx ELSE [present |-> TRUE, d |-> dim, vecs |-> <<>>]

\* index.add that keeps the first vector of a batch it then rejects
IndexAdd_PartialOnFailure(idx, embeddings, fate) ==
    IF fate = "add_fail" \/ \E i \in 1..Len(embeddings) : Len(embeddings[i]) # idx.d
    THEN [ok |-> FALSE, index |-> [idx EXCEPT !.vecs = @ \o SubSeq(embeddings, 1, 1)]]
    ELSE [ok |-> TRUE, index |-> [idx EXCEPT !.vecs = @ \o embeddings]]

\* index.add without the assertion on the dimension of the vectors
IndexAdd_NoDimensionCheck(idx, embeddings, fate) ==
    IF fate = "add_fail"
    THEN [ok |-> FALSE, index |-> idx]
    ELSE [ok |-> TRUE, index |-> [idx EXCEPT !.vecs = @ \o embeddings]]

\* self.index.add(embeddings): all the vectors are appended, or (dimension
\* assertion, allocation failure) the call raises and the index is as before
IndexAdd(idx, embeddings, fate) ==
    IF fate = "add_fail" \/ \E i \in 1..Len(embeddings) : Len(embeddings[i]) # idx.d
    THEN [ok |-> FALSE, index |-> idx]
    ELSE [ok |-> TRUE, index |-> [idx EXCEPT !.vecs = @ \o embeddings]]

\* metadatas defaulting and self.metadata.extend(metadatas)
ExtendMetadata(metadata, docs, metadatas) ==
    metadata \o (IF metadatas.given THEN metadatas.list
                 ELSE [i \in 1..Len(docs) |-> EmptyDict])

\* body of VectorStore.add_documents
AddDocumentsBody(op, docs, metadatas, fate) ==
    /\ UNCHANGED <<program, vsModel>>
    /\ UNCHANGED <<rsVars, apiVars, orVars>>
    /\ IF docs = <<>>
       THEN /\ vsResult' = Err(op, 0, "ValueError")
            /\ UNCHANGED <<vsUp, vsIndex, vsMetadata, diskIndex, diskMeta>>
       ELSE IF fate = "encode_fail"
       THEN /\ vsResult' = Err(op, Len(docs), "EmbedderFailure")
            /\ UNCHANGED <<vsUp, vsIndex, vsMetadata, diskIndex, diskMeta>>
       ELSE LET added == IndexAdd(EnsureIndex(vsIndex, ModelDim(vsModel)),
                                 EncodeNormalized(vsModel, docs), fate)
            IN  IF ~added.ok
                THEN /\ vsIndex' = added.index
                     /\ vsResult' = Err(op, Len(docs), "IndexAddFailure")
                     /\ UNCHANGED <<vsUp, vsMetadata, diskIndex, diskMeta>>
                ELSE LET meta2 == ExtendMetadata(vsMetadata, docs, metadatas)
                         files == Save(added.index, meta2, diskIndex, diskMeta, fate)
                     IN  /\ diskIndex' = files[1]
                         /\ diskMeta' = files[2]
                         /\ IF fate \in CrashFates
                            THEN /\ vsUp' = FALSE
                                 /\ vsIndex' = NoIndex
                                 /\ vsMetadata' = <<>>
                                 /\ vsResult' = NoResult
                            ELSE /\ vsUp' = TRUE
                                 /\ vsIndex' = added.index
                                 /\ vsMetadata' = meta2
                                 /\ vsResult' = IF fate = "ok" THEN Ok(op, Len(docs))
                                                ELSE Err(op, Len(docs), "PersistenceFailure")

VS_AddDocuments(docs, metadatas, fate) ==
    /\ program = "vector_store"
    /\ vsUp
    /\ NTotal(vsIndex) + Len(docs) <= MaxVecs
    /\ Len(vsMetadata) + Len(metadatas.list) <= MaxVecs
    /\ AddDocumentsBody("add_documents", docs, metadatas, fate)

\* VectorStore.add_texts_with_metadata
VS_AddTextsWithMetadata(docs, fate) ==
    /\ program = "vector_store"
    /\ vsUp
    /\ NTotal(vsIndex) + Len(docs) <= MaxVecs
    /\ Len(vsMetadata) + Len(docs) <= MaxVecs
    /\ AddDocumentsBody("add_texts_with_metadata", docs,
                        [given |-> TRUE, list |-> [i \in 1..Len(docs) |-> TextDict(docs[i])]],
                        fate)

\* one (doc_text, score) tuple of VectorStore.query, for a hit (score, idx)
ResolveHit(metadata, hit) ==
    IF hit[2] < Len(metadata)
    THEN <<DictGet(PyGet(metadata, hit[2]), "text", ""), hit[1]>>
    ELSE <<"", hit[1]>>

\* query without the early return for a missing or empty index
Query_NoEmptyCheck(model, idx, metadata, q, k, fate) ==
    IF fate = "encode_fail" THEN Err("query", k, "EmbedderFailure")
    ELSE IF k <= 0 \/ idx.d # ModelDim(model) THEN Err("query", k, "AssertionError")
    ELSE LET hits == IndexSearch("IP", idx.vecs, Normalize(RawEmbedOf(model, q)), k)
         IN  IF \E r \in 1..k : hits[r][2] < Len(metadata) /\ ~PyInRange(metadata, hits[r][2])
             THEN Err("query", k, "IndexError")
             ELSE [Ok("query", k) EXCEPT !.q = q,
                                         !.results = [r \in 1..k |-> ResolveHit(metadata, hits[r])]]

\* VectorStore.query as a function of the store
Query(model, idx, metadata, q, k, fate) ==
    IF ~idx.present \/ NTotal(idx) = 0 THEN Ok("query", k)
    ELSE IF fate = "encode_fail" THEN Err("query", k, "EmbedderFailure")
    ELSE IF k <= 0 \/ idx.d # ModelDim(model) THEN Err("query", k, "AssertionError")
    ELSE LET hits == IndexSearch("IP", idx.vecs, Normalize(RawEmbedOf(model, q)), k)
         IN  IF \E r \in 1..k : hits[r][2] < Len(metadata) /\ ~PyInRange(metadata, hits[r][2])
             THEN Err("query", k, "IndexError")
             ELSE [Ok("query", k) EXCEPT !.q = q,
                                         !.results = [r \in 1..k |-> ResolveHit(metadata, hits[r])]]

\* query that also calls _save before it returns
VS_Query_SavesStore(q, k, fate) ==
    /\ program = "vector_store"
    /\ vsUp
    /\ vsResult' = Query(vsModel, vsIndex, vsMetadata, q, k, fate)
    /\ diskIndex' = Save(vsIndex, vsMetadata, diskIndex, diskMeta, "ok")[1]
    /\ diskMeta' = Save(vsIndex, vsMetadata, diskIndex, diskMeta, "ok")[2]
    /\ UNCHANGED <<program, vsUp, vsModel, vsIndex, vsMetadata>> /\ UNCHANGED <<rsVars, apiVars, orVars>>

VS_Query(q, k, fate) ==
    /\ program = "vector_store"
    /\ vsUp
    /\ vsResult' = Query(vsModel, vsIndex, vsMetadata, q, k, fate)
    /\ UNCHANGED <<program, vsUp, vsModel, vsIndex, vsMetadata, diskIndex, diskMeta>> /\ UNCHANGED <<rsVars, apiVars, orVars>>

\* process exit (or crash while idle) followed by VectorStore.__init__,
\* called with any embedding_model_name
VS_Restart ==
    /\ program = "vector_store"
    /\ vsUp' = TRUE
    /\ vsModel' \in Models
    /\ vsIndex' = Load(diskIndex, diskMeta)[1]
    /\ vsMetadata' = Load(diskIndex, diskMeta)[2]
    /\ vsResult' = NoResult
    /\ UNCHANGED <<program, diskIndex, diskMeta>> /\ UNCHANGED <<rsVars, apiVars, orVars>>


\* ------------------------------------------------------- retriever service
\* sync endpoints run on the server's thread pool: two worker threads
Threads == {"t1", "t2"}

NoLocal == [docs |-> <<>>, nt |-> 0, hits |-> <<>>]

\* HTTP response: n echoes the request's size (len(documents) or top_k)
NoResp == [op |-> "none", n |-> 0, status |-> 0, indexed |-> 0, chunks |-> <<>>]

Resp(op, n, status) == [op |-> op, n |-> n, status |-> status, indexed |-> 0, chunks |-> <<>>]

Respond(t, resp) ==
    /\ rsResp' = [rsResp EXCEPT ![t] = resp]
    /\ rsPc' = [rsPc EXCEPT ![t] = "idle"]
    /\ rsLocal' = [rsLocal EXCEPT ![t] = NoLocal]

\* index_docs that extends doc_store before index.add, so that the
\* documents of a failed call stay in doc_store
RS_IndexDocsBegin_StoresOnFailure(t, documents, fate) ==
    /\ program = "retriever_service"
    /\ rsPc[t] = "idle"
    /\ rsServed < MaxRequests
    /\ Len(index) + Len(documents) <= MaxVecs
    /\ rsServed' = rsServed + 1
    /\ IF fate \in {"encode_fail", "add_fail"} \/ documents = <<>>
       THEN /\ Respond(t, Resp("index_docs", Len(documents), 500))
            /\ doc_store' = IF fate = "add_fail" THEN doc_store \o documents ELSE doc_store
       ELSE /\ rsPc' = [rsPc EXCEPT ![t] = "adding"]
            /\ rsLocal' = [rsLocal EXCEPT ![t] = [docs |-> documents, nt |-> Len(index), hits |-> <<>>]]
            /\ UNCHANGED <<rsResp, doc_store>>
    /\ UNCHANGED index
    /\ UNCHANGED <<program, vsVars, apiVars, orVars>>

\* index_docs, up to the point where index.add has read the index size:
\* embedder.encode, then the start of index.add
RS_IndexDocsBegin(t, documents, fate) ==
    /\ program = "retriever_service"
    /\ rsPc[t] = "idle"
    /\ rsServed < MaxRequests
    /\ Len(index) + Len(documents) <= MaxVecs
    /\ rsServed' = rsServed + 1
    /\ IF fate \in {"encode_fail", "add_fail"} \/ documents = <<>>
       THEN \* any exception inside the try block becomes HTTP 500; an empty
            \* batch has no check of its own: its embeddings have no second
            \* axis and index.add raises on them
            /\ Respond(t, Resp("index_docs", Len(documents), 500))
       ELSE /\ rsPc' = [rsPc EXCEPT ![t] = "adding"]
            /\ rsLocal' = [rsLocal EXCEPT ![t] = [docs |-> documents, nt |-> Len(index), hits |-> <<>>]]
            /\ UNCHANGED rsResp
    /\ UNCHANGED <<index, doc_store>>
    /\ UNCHANGED <<program, vsVars, apiVars, orVars>>

\* index.add stores the vectors.  FAISS takes no lock and runs without the
\* GIL: when another add completed in between, the vectors land either after
\* the current end or at the offset read earlier (overwriting the other add)
RS_IndexAddEnd(t) ==
    /\ program = "retriever_service"
    /\ rsPc[t] = "adding"
    /\ \E base \in {rsLocal[t].nt, Len(index)} :
           /\ base <= Len(index)
           /\ index' = SubSeq(index, 1, base) \o Encode(rsLocal[t].docs)
    /\ rsPc' = [rsPc EXCEPT ![t] = "extending"]
    /\ UNCHANGED <<doc_store, rsLocal, rsResp, rsServed>>
    /\ UNCHANGED <<program, vsVars, apiVars, orVars>>

\* doc_store.extend(request.documents) and the success response
RS_IndexDocsExtend(t) ==
    /\ program = "retriever_service"
    /\ rsPc[t] = "extending"
    /\ doc_store' = doc_store \o rsLocal[t].docs
    /\ Respond(t, [Resp("index_docs", Len(rsLocal[t].docs), 200) EXCEPT
                       !.indexed = Len(rsLocal[t].docs)])
    /\ UNCHANGED <<index, rsServed>>
    /\ UNCHANGED <<program, vsVars, apiVars, orVars>>

\* retrieve_docs, up to and including index.search
RS_RetrieveSearch(t, q, k, fate) ==
    /\ program = "retriever_service"
    /\ rsPc[t] = "idle"
    /\ rsServed < MaxRequests
    /\ rsServed' = rsServed + 1
    /\ IF fate = "encode_fail" \/ Len(index) = 0 \/ k <= 0
       THEN \* the HTTPException(404) raised for an empty index is caught by
            \* the handler's own "except Exception" and turned into a 500
            /\ Respond(t, Resp("retrieve", k, 500))
       ELSE /\ rsPc' = [rsPc EXCEPT ![t] = "resolving"]
            /\ rsLocal' = [rsLocal EXCEPT ![t] =
                   [docs |-> <<>>, nt |-> 0, hits |-> IndexSearch("L2", index, RawEmbed(q), k)]]
            /\ UNCHANGED rsResp
    /\ UNCHANGED <<index, doc_store>>
    /\ UNCHANGED <<program, vsVars, apiVars, orVars>>

\* [doc_store[i] for i in I[0] if i < len(doc_store)]
RECURSIVE ResolveChunks(_, _)
ResolveChunks(store, hits) ==
    IF hits = <<>> THEN <<>>
    ELSE IF Head(hits)[2] < Len(store)
         THEN <<PyGet(store, Head(hits)[2])>> \o ResolveChunks(store, Tail(hits))
         ELSE ResolveChunks(store, Tail(hits))

\* the list comprehension raises IndexError for label -1 on an empty list
ResolveRaises(store, hits) ==
    \E r \in 1..Len(hits) : hits[r][2] < Len(store) /\ ~PyInRange(store, hits[r][2])

\* retrieve_docs that returns the chunks worst-first
RS_RetrieveResolve_Reversed(t) ==
    /\ program = "retriever_service"
    /\ rsPc[t] = "resolving"
    /\ IF ResolveRaises(doc_store, rsLocal[t].hits)
       THEN Respond(t, Resp("retrieve", Len(rsLocal[t].hits), 500))
       ELSE LET chunks == ResolveChunks(doc_store, rsLocal[t].hits)
            IN  Respond(t, [Resp("retrieve", Len(rsLocal[t].hits), 200) EXCEPT
                                !.chunks = [j \in 1..Len(chunks) |-> chunks[Len(chunks) + 1 - j]]])
    /\ UNCHANGED <<index, doc_store, rsServed>>
    /\ UNCHANGED <<program, vsVars, apiVars, orVars>>

\* retrieve_docs, from the list comprehension to the response
RS_RetrieveResolve(t) ==
    /\ program = "retriever_service"
    /\ rsPc[t] = "resolving"
    /\ IF ResolveRaises(doc_store, rsLocal[t].hits)
       THEN Respond(t, Resp("retrieve", Len(rsLocal[t].hits), 500))
       ELSE Respond(t, [Resp("retrieve", Len(rsLocal[t].hits), 200) EXCEPT
                            !.chunks = ResolveChunks(doc_store, rsLocal[t].hits)])
    /\ UNCHANGED <<index, doc_store, rsServed>>
    /\ UNCHANGED <<program, vsVars, apiVars, orVars>>

\* the server process exits and is started again: the module-level index
\* and doc_store are rebuilt empty, requests in flight are gone
RS_Restart ==
    /\ program = "retriever_service"
    /\ index' = <<>>
    /\ doc_store' = <<>>
    /\ rsPc' = [t \in Threads |-> "idle"]
    /\ rsLocal' = [t \in Threads |-> NoLocal]
    /\ rsResp' = [t \in Threads |-> NoResp]
    /\ UNCHANGED rsServed
    /\ UNCHANGED <<program, vsVars, apiVars, orVars>>

RSInit ==
    /\ index = <<>>
    /\ doc_store = <<>>
    /\ rsPc = [t \in Threads |-> "idle"]
    /\ rsLocal = [t \in Threads |-> NoLocal]
    /\ rsResp = [t \in Threads |-> NoResp]
    /\ rsServed = 0

RSNext ==
    \/ \E t \in Threads, documents \in DocBatches, fate \in {"ok", "encode_fail", "add_fail"} :
           RS_IndexDocsBegin(t, documents, fate)
    \/ \E t \in Threads : RS_IndexAddEnd(t)
    \/ \E t \in Threads : RS_IndexDocsExtend(t)
    \/ \E t \in Threads, q \in Texts, k \in TopKs, fate \in {"ok", "encode_fail"} :
           RS_RetrieveSearch(t, q, k, fate)
    \/ \E t \in Threads : RS_RetrieveResolve(t)
    \/ RS_Restart

VSInit ==
    /\ vsUp = TRUE
    /\ vsModel \in Models
    /\ vsIndex = NoIndex
    /\ vsMetadata = <<>>
    /\ diskIndex = Absent
    /\ diskMeta = Absent
    /\ vsResult = NoResult

VSNext ==
    \/ \E docs \in DocBatches, m \in MetadatasArgs, fate \in AddFates :
           VS_AddDocuments(docs, m, fate)
    \/ \E docs \in DocBatches, fate \in AddFates : VS_AddTextsWithMetadata(docs, fate)
    \/ \E q \in Texts, k \in TopKs, fate \in {"ok", "encode_fail"} : VS_Query(q, k, fate)
    \/ VS_Restart

\* ------------------------------------------------------------- api service
Companies == {"X", "Y"}

CompanyLists == SeqsUpTo(Companies, MaxCompanies)

\* Python None where a ticker symbol is expected
NoTicker == "None"

\* what the outside world does for one company: the Yahoo search, the
\* price history and the ticker info
CompanyFates ==
    [search : {"found", "none", "error"},
     fetch : {"ok", "empty", "error"},
     info : {"ok", "error"}]

FateLists(n) == {f \in SeqsUpTo(CompanyFates, MaxCompanies) : Len(f) = n}

\* outcome of a helper call: the value it returns or the exception it raises
Returns(v) == [exc |-> "none", detail |-> "", value |-> v]

Raises(kind, detail) == [exc |-> kind, detail |-> detail, value |-> <<>>]

\* search_company_ticker: the top quote's symbol, None when there is no
\* quote, None when anything raises
SearchCompanyTicker(name, fate) ==
    IF fate.search = "found" THEN Returns(IF name = "X" THEN "XT" ELSE "YT")
    ELSE Returns(NoTicker)

\* fetch_yfinance_data that lets the exceptions of yfinance through
FetchYfinanceData_Unwrapped(ticker, fate) ==
    IF ticker = NoTicker THEN Raises("Exception", "bad ticker")
    ELSE IF fate.fetch = "error" THEN Raises("Exception", "fetch error")
    ELSE IF fate.fetch = "empty" THEN Raises("HTTPException", "no historical data")
    ELSE Returns(<<"day1", "day2">>)

\* fetch_yfinance_data: the rows of the price history; every exception of
\* the body, the 404 raised for an empty history included, is caught and
\* raised again as HTTPException(500, str(e))
FetchYfinanceData(ticker, fate) ==
    IF ticker = NoTicker THEN Raises("HTTPException", "bad ticker")
    ELSE IF fate.fetch = "error" THEN Raises("HTTPException", "fetch error")
    ELSE IF fate.fetch = "empty" THEN Raises("HTTPException", "no historical data")
    ELSE Returns(<<"day1", "day2">>)

\* get_company_metadata: region and sector, "Unknown" when anything raises
GetCompanyMetadata(ticker, fate) ==
    IF fate.info = "ok" THEN Returns([region |-> "US", sector |-> "Tech"])
    ELSE Returns([region |-> "Unknown", sector |-> "Unknown"])

\* the body of the for loop of get_company_financials for one name: the
\* results list afterwards, or the exception that leaves the loop
CompanyStep(results, name, fate) ==
    LET ticker == SearchCompanyTicker(name, fate)
        history == FetchYfinanceData(ticker.value, fate)
        metadata == GetCompanyMetadata(ticker.value, fate)
    IN  IF history.exc = "HTTPException"
        THEN Returns(Append(results, [company_name |-> name, error |-> history.detail]))
        ELSE IF history.exc # "none" THEN Raises(history.exc, history.detail)
        ELSE Returns(Append(results,
                 [company_name |-> name, ticker |-> ticker.value,
                  region |-> metadata.value.region, sector |-> metadata.value.sector,
                  history |-> history.value]))

\* the for loop of get_company_financials, from the i-th company on
RECURSIVE CompanyLoop(_, _, _, _)
CompanyLoop(results, companies, fates, i) ==
    IF i > Len(companies) THEN Returns(results)
    ELSE LET step == CompanyStep(results, companies[i], fates[i])
         IN  IF step.exc # "none" THEN step
             ELSE CompanyLoop(step.value, companies, fates, i + 1)

\* HTTP response of POST /get-company-financials; an exception that leaves
\* the handler is answered by the server with 500
GetCompanyFinancials(companies, fates) ==
    LET loop == CompanyLoop(<<>>, companies, fates, 1)
    IN  IF loop.exc # "none"
        THEN [status |-> 500, json |-> [detail |-> "Internal Server Error"]]
        ELSE [status |-> 200, json |-> [status |-> "success", company_data |-> loop.value]]

NoApiResp == [status |-> 0, json |-> [detail |-> "none"]]

API_GetCompanyFinancials(companies, fates) ==
    /\ program = "api_service"
    /\ apiReq' = companies
    /\ apiResp' = GetCompanyFinancials(companies, fates)
    /\ UNCHANGED <<program, vsVars, rsVars, orVars>>

APIInit ==
    /\ apiReq = <<>>
    /\ apiResp = NoApiResp

APINext ==
    \E companies \in CompanyLists : \E fates \in FateLists(Len(companies)) :
        API_GetCompanyFinancials(companies, fates)

\* ------------------------------------------------------------ orchestrator
\* texts are sequences of characters, so that strip() is computed
RECURSIVE LStrip(_)
LStrip(s) == IF s # <<>> /\ Head(s) = " " THEN LStrip(Tail(s)) ELSE s

RECURSIVE RStrip(_)
RStrip(s) == IF s # <<>> /\ s[Len(s)] = " " THEN RStrip(SubSeq(s, 1, Len(s) - 1)) ELSE s

\* str.strip()
Strip(s) == RStrip(LStrip(s))

\* an optional form field: None or a text
NoneText == [isNone |-> TRUE, s |-> <<>>]

SomeText(s) == [isNone |-> FALSE, s |-> s]

InputTexts == {NoneText, SomeText(<<>>), SomeText(<<" ">>), SomeText(<<"q">>), SomeText(<<" ", "q">>)}

\* response_mode: "text", the default "audio", and the "both" that the
\* Streamlit client sends
ResponseModes == {"text", "audio", "both"}

Filenames == {"query.wav", "query.ogg"}

OrRequests ==
    [audio_file : BOOLEAN, filename : Filenames, input_text : InputTexts,
     response_mode : ResponseModes]

\* dict.get(key, default) on a JSON object
JsonGet(obj, key, default) == IF key \in DOMAIN obj THEN obj[key] ELSE default

\* a downstream service that could not be reached: there is no response
NoConnection == [status |-> 0, json |-> [detail |-> "no response"]]

SttFates == {"ok", "unintelligible", "request_error", "error"}

Speeches == {<<>>, <<"q">>, <<"q", " ">>}

\* HTTP response of the STT service's POST /transcribe
TranscribeAudio(filename, fate, speech) ==
    IF filename # "query.wav"
    THEN \* the HTTPException(400) for the file type is raised inside the try
         \* block and caught by "except Exception"
         [status |-> 500, json |-> [detail |-> "Transcription failed."]]
    ELSE CASE fate = "unintelligible" ->
                  [status |-> 400, json |-> [detail |-> "Speech was unintelligible."]]
           [] fate = "request_error" ->
                  [status |-> 500, json |-> [detail |-> "Speech recognition error"]]
           [] fate = "error" ->
                  [status |-> 500, json |-> [detail |-> "Transcription failed."]]
           [] OTHER ->
                  [status |-> 200,
                   json |-> [status |-> "success", transcription_id |-> "id", text |-> speech]]

Briefs == {<<>>, <<"B">>, <<"B", " ">>}

Narratives == {<<>>, <<"N">>, <<" ", "N">>}

\* the stages of process_request in the order of the code
Stages == <<"stt", "brief", "api", "index", "retrieve", "analyze", "narrative", "tts">>

NoOrLocal ==
    [input_text |-> <<>>, brief |-> <<>>, companies |-> <<>>, company_data |-> <<>>,
     documents |-> <<>>, context_chunks |-> <<>>, analysis_summary |-> "", narrative |-> <<>>]

NoOrReq ==
    [audio_file |-> FALSE, filename |-> "query.wav", input_text |-> NoneText,
     response_mode |-> "audio"]

NoOrResp == [status |-> 0, kind |-> "none", detail |-> "", narrative |-> <<>>]

\* raise HTTPException(status_code, detail), and the 500 the server sends
\* for any other exception that leaves the handler
HttpError(status, detail) ==
    [status |-> status, kind |-> "error", detail |-> detail, narrative |-> <<>>]

\* one downstream call: the stage, the text it carried (the text of the STT
\* answer, raw_text of the brief request, text of the TTS request) and the
\* status that came back
Call(stage, text, status) == [stage |-> stage, text |-> text, status |-> status]

\* the request ends with an error response
OrFail(call, status, detail) ==
    /\ orCalls' = Append(orCalls, call)
    /\ orResp' = HttpError(status, detail)
    /\ orPc' = "done"
    /\ UNCHANGED <<orReq, orLocal>>

\* the request goes on to the next stage
OrGoOn(call, local, stage) ==
    /\ orCalls' = Append(orCalls, call)
    /\ orLocal' = local
    /\ orPc' = stage
    /\ UNCHANGED <<orReq, orResp>>

\* process_request whose first check tests input_text without strip()
OR_ProcessRequest_NoStripCheck(req) ==
    /\ program = "orchestrator"
    /\ orPc \in {"idle", "done"}
    /\ orReq' = req
    /\ orCalls' = <<>>
    /\ IF ~req.audio_file /\ (req.input_text.isNone \/ req.input_text.s = <<>>)
       THEN /\ orResp' = HttpError(400, "Provide either audio_file or input_text.")
            /\ orPc' = "done"
            /\ orLocal' = NoOrLocal
       ELSE /\ orResp' = NoOrResp
            /\ IF req.audio_file
               THEN /\ orPc' = "stt"
                    /\ orLocal' = NoOrLocal
               ELSE /\ orPc' = "brief"
                    /\ orLocal' = [NoOrLocal EXCEPT !.input_text = Strip(req.input_text.s)]
    /\ UNCHANGED <<program, vsVars, rsVars, apiVars>>

\* process_request up to the first downstream call
OR_ProcessRequest(req) ==
    /\ program = "orchestrator"
    /\ orPc \in {"idle", "done"}
    /\ orReq' = req
    /\ orCalls' = <<>>
    /\ IF ~req.audio_file /\ (req.input_text.isNone \/ Strip(req.input_text.s) = <<>>)
       THEN /\ orResp' = HttpError(400, "Provide either audio_file or input_text.")
            /\ orPc' = "done"
            /\ orLocal' = NoOrLocal
       ELSE /\ orResp' = NoOrResp
            /\ IF req.audio_file
               THEN /\ orPc' = "stt"
                    /\ orLocal' = NoOrLocal
               ELSE /\ orPc' = "brief"
                    /\ orLocal' = [NoOrLocal EXCEPT !.input_text = Strip(req.input_text.s)]
    /\ UNCHANGED <<program, vsVars, rsVars, apiVars>>

\* Step 1: the call of the STT service and the reading of its answer
OR_Stt(resp) ==
    /\ program = "orchestrator"
    /\ orPc = "stt"
    /\ LET call == Call("stt", JsonGet(resp.json, "text", <<>>), resp.status)
           text == Strip(JsonGet(resp.json, "transcription", <<>>))
       IN  IF resp.status = 0 THEN OrFail(call, 500, "Internal Server Error")
           ELSE IF resp.status # 200 THEN OrFail(call, 502, "STT error")
           ELSE IF text = <<>> THEN OrFail(call, 502, "STT returned empty text.")
           ELSE OrGoOn(call, [orLocal EXCEPT !.input_text = Strip(text)], "brief")
    /\ UNCHANGED <<program, vsVars, rsVars, apiVars>>

\* Step 2: the call of /generate-initial-brief
OR_Brief(status, brief, names) ==
    /\ program = "orchestrator"
    /\ orPc = "brief"
    /\ LET call == Call("brief", orLocal.input_text, status)
           json == [brief |-> brief, company_names |-> names]
           b == Strip(JsonGet(json, "brief", <<>>))
           companies == JsonGet(json, "company_names", <<>>)
       IN  IF status = 0 THEN OrFail(call, 500, "Internal Server Error")
           ELSE IF status # 200 THEN OrFail(call, 502, "LLM brief error")
           ELSE IF b = <<>> \/ companies = <<>>
           THEN OrFail(call, 502, "LLM brief generation failed or returned empty data.")
           ELSE OrGoOn(call, [orLocal EXCEPT !.brief = b, !.companies = companies], "api")
    /\ UNCHANGED <<program, vsVars, rsVars, apiVars>>

\* one document per company entry that is not an error record
RECURSIVE BuildDocuments(_)
BuildDocuments(company_data) ==
    IF company_data = <<>> THEN <<>>
    ELSE LET entry == Head(company_data)
         IN  IF "error" \in DOMAIN entry THEN BuildDocuments(Tail(company_data))
             ELSE <<<<entry.company_name, entry.ticker, entry.sector, entry.region,
                      entry.history>>>> \o BuildDocuments(Tail(company_data))

\* Step 3: the call of /get-company-financials, and the documents built
\* from its answer
OR_Api(resp) ==
    /\ program = "orchestrator"
    /\ orPc = "api"
    /\ LET call == Call("api", <<>>, resp.status)
           company_data == JsonGet(resp.json, "company_data", <<>>)
       IN  IF resp.status = 0
           THEN OrFail(call, 502, "Failed to connect to Company API service.")
           ELSE IF resp.status # 200 THEN OrFail(call, 502, "API service error")
           ELSE OrGoOn(call, [orLocal EXCEPT !.company_data = company_data,
                                             !.documents = BuildDocuments(company_data)],
                       "index")
    /\ UNCHANGED <<program, vsVars, rsVars, apiVars>>

\* HTTP status of the retriever's POST /index-docs for these documents
IndexDocsStatus(documents, fate) ==
    IF fate = "no_connection" THEN 0
    ELSE IF fate \in {"encode_fail", "add_fail"} \/ documents = <<>> THEN 500
    ELSE 200

\* Step 3.5: the call of /index-docs
OR_Index(fate) ==
    /\ program = "orchestrator"
    /\ orPc = "index"
    /\ LET status == IndexDocsStatus(orLocal.documents, fate)
           call == Call("index", <<>>, status)
       IN  IF status = 0 THEN OrFail(call, 500, "Internal Server Error")
           ELSE IF status # 200 THEN OrFail(call, 502, "Indexing error")
           ELSE OrGoOn(call, orLocal, "retrieve")
    /\ UNCHANGED <<program, vsVars, rsVars, apiVars>>

\* /retrieve whose status is not looked at
OR_Retrieve_IgnoresStatus(status, chunks) ==
    /\ program = "orchestrator"
    /\ orPc = "retrieve"
    /\ OrGoOn(Call("retrieve", <<>>, status),
              [orLocal EXCEPT !.context_chunks = chunks], "analyze")
    /\ UNCHANGED <<program, vsVars, rsVars, apiVars>>

\* Step 4: the call of /retrieve with top_k = 5
OR_Retrieve(status, chunks) ==
    /\ program = "orchestrator"
    /\ orPc = "retrieve"
    /\ LET call == Call("retrieve", <<>>, status)
           json == [status |-> "success", query |-> orLocal.input_text, chunks |-> chunks]
       IN  IF status = 0 THEN OrFail(call, 500, "Internal Server Error")
           ELSE IF status # 200 THEN OrFail(call, 502, "Retriever error")
           ELSE OrGoOn(call, [orLocal EXCEPT !.context_chunks = JsonGet(json, "chunks", <<>>)],
                       "analyze")
    /\ UNCHANGED <<program, vsVars, rsVars, apiVars>>

\* analysis text of the analysis service's POST /analyze
Analyze(chunks) ==
    IF chunks = <<>> THEN "No context available for analysis." ELSE "top insights"

\* Step 5: the call of /analyze
OR_Analyze(status) ==
    /\ program = "orchestrator"
    /\ orPc = "analyze"
    /\ LET call == Call("analyze", <<>>, status)
           json == [analysis |-> Analyze(orLocal.context_chunks), top_chunks |-> <<>>]
       IN  IF status = 0 THEN OrFail(call, 500, "Internal Server Error")
           ELSE IF status # 200 THEN OrFail(call, 502, "Analyzer error")
           ELSE OrGoOn(call, [orLocal EXCEPT !.analysis_summary = JsonGet(json, "analysis", "")],
                       "narrative")
    /\ UNCHANGED <<program, vsVars, rsVars, apiVars>>

\* Step 6 and 7: the call of /generate-final-narrative, the text answer, or
\* the narrative written to my_document.txt before the TTS call
OR_Narrative(status, narrative, fileFate) ==
    /\ program = "orchestrator"
    /\ orPc = "narrative"
    /\ LET call == Call("narrative", <<>>, status)
           json == [narrative |-> narrative]
           text == Strip(JsonGet(json, "narrative", <<>>))
       IN  IF status = 0 THEN OrFail(call, 500, "Internal Server Error")
           ELSE IF status # 200 THEN OrFail(call, 502, "Narrative LLM error")
           ELSE IF text = <<>> THEN OrFail(call, 502, "LLM returned empty narrative.")
           ELSE IF orReq.response_mode = "text"
           THEN /\ orCalls' = Append(orCalls, call)
                /\ orLocal' = [orLocal EXCEPT !.narrative = text]
                /\ orResp' = [status |-> 200, kind |-> "json", detail |-> "",
                              narrative |-> text]
                /\ orPc' = "done"
                /\ UNCHANGED orReq
           ELSE IF fileFate = "write_fail" THEN OrFail(call, 500, "Internal Server Error")
           ELSE OrGoOn(call, [orLocal EXCEPT !.narrative = text], "tts")
    /\ UNCHANGED <<program, vsVars, rsVars, apiVars>>

\* /speak called with the final narrative
OR_Tts_SpeaksNarrative(status) ==
    /\ program = "orchestrator"
    /\ orPc = "tts"
    /\ LET call == Call("tts", orLocal.narrative, status)
       IN  IF status = 0 THEN OrFail(call, 503, "Could not connect to TTS service")
           ELSE IF status # 200
           THEN OrFail(call, 500, "Unexpected error during TTS streaming.")
           ELSE /\ orCalls' = Append(orCalls, call)
                /\ orResp' = [status |-> 200, kind |-> "audio", detail |-> "",
                              narrative |-> <<>>]
                /\ orPc' = "done"
                /\ UNCHANGED <<orReq, orLocal>>
    /\ UNCHANGED <<program, vsVars, rsVars, apiVars>>

\* Step 8: the call of /speak with the brief, and the streamed answer
OR_Tts(status) ==
    /\ program = "orchestrator"
    /\ orPc = "tts"
    /\ LET call == Call("tts", orLocal.brief, status)
       IN  IF status = 0 THEN OrFail(call, 503, "Could not connect to TTS service")
           ELSE IF status # 200
           THEN \* the HTTPException(502) is raised inside the try block and
                \* caught by its "except Exception"
                OrFail(call, 500, "Unexpected error during TTS streaming.")
           ELSE /\ orCalls' = Append(orCalls, call)
                /\ orResp' = [status |-> 200, kind |-> "audio", detail |-> "",
                              narrative |-> <<>>]
                /\ orPc' = "done"
                /\ UNCHANGED <<orReq, orLocal>>
    /\ UNCHANGED <<program, vsVars, rsVars, apiVars>>

ORInit ==
    /\ orPc = "idle"
    /\ orReq = NoOrReq
    /\ orLocal = NoOrLocal
    /\ orCalls = <<>>
    /\ orResp = NoOrResp

DownStatuses == {200, 500, 0}

ORNext ==
    \/ \E req \in OrRequests : OR_ProcessRequest(req)
    \/ \E fate \in SttFates, speech \in Speeches :
           OR_Stt(TranscribeAudio(orReq.filename, fate, speech))
    \/ OR_Stt(NoConnection)
    \/ \E status \in DownStatuses, brief \in Briefs, names \in CompanyLists :
           OR_Brief(status, brief, names)
    \/ \E fates \in FateLists(Len(orLocal.companies)) :
           OR_Api(GetCompanyFinancials(orLocal.companies, fates))
    \/ \E resp \in {NoConnection, [status |-> 500, json |-> [detail |-> "error"]]} :
           OR_Api(resp)
    \/ \E fate \in {"ok", "encode_fail", "add_fail", "no_connection"} : OR_Index(fate)
    \/ \E status \in DownStatuses, chunks \in {<<>>, orLocal.documents} :
           OR_Retrieve(status, chunks)
    \/ \E status \in DownStatuses : OR_Analyze(status)
    \/ \E status \in DownStatuses, narrative \in Narratives, fileFate \in {"ok", "write_fail"} :
           OR_Narrative(status, narrative, fileFate)
    \/ \E status \in DownStatuses : OR_Tts(status)

Init ==
    /\ program \in {"vector_store", "retriever_service", "api_service", "orchestrator"}
    /\ VSInit
    /\ RSInit
    /\ APIInit
    /\ ORInit
    /\ program # "vector_store" => vsModel = DefaultModel

Next == VSNext \/ RSNext \/ APINext \/ ORNext

Spec == Init /\ [][Next]_vars

\* runs of the VectorStore library alone
InitVS ==
    /\ program = "vector_store"
    /\ vsUp = TRUE
    /\ vsModel \in Models
    /\ vsIndex = NoIndex
    /\ vsMetadata = <<>>
    /\ diskIndex = Absent
    /\ diskMeta = Absent
    /\ vsResult = NoResult
    /\ index = <<>>
    /\ doc_store = <<>>
    /\ rsPc = [t \in Threads |-> "idle"]
    /\ rsLocal = [t \in Threads |-> NoLocal]
    /\ rsResp = [t \in Threads |-> NoResp]
    /\ rsServed = 0
    /\ APIInit
    /\ ORInit

SpecVS == InitVS /\ [][VSNext]_vars

\* runs of the retriever service alone
InitRS ==
    /\ program = "retriever_service"
    /\ vsUp = TRUE
    /\ vsModel = DefaultModel
    /\ vsIndex = NoIndex
    /\ vsMetadata = <<>>
    /\ diskIndex = Absent
    /\ diskMeta = Absent
    /\ vsResult = NoResult
    /\ index = <<>>
    /\ doc_store = <<>>
    /\ rsPc = [t \in Threads |-> "idle"]
    /\ rsLocal = [t \in Threads |-> NoLocal]
    /\ rsResp = [t \in Threads |-> NoResp]
    /\ rsServed = 0
    /\ APIInit
    /\ ORInit

SpecRS == InitRS /\ [][RSNext]_vars

\* runs of the API service alone
InitAPI ==
    /\ program = "api_service"
    /\ vsModel = DefaultModel
    /\ VSInit
    /\ RSInit
    /\ APIInit
    /\ ORInit

SpecAPI == InitAPI /\ [][APINext]_vars

\* runs of the orchestrator alone
InitOR ==
    /\ program = "orchestrator"
    /\ vsModel = DefaultModel
    /\ VSInit
    /\ RSInit
    /\ APIInit
    /\ ORInit

SpecOR == InitOR /\ [][ORNext]_vars


\* ================================================================== claims
Min(a, b) == IF a < b THEN a ELSE b

\* no index_docs call is between its index.add and its response
NoIngestInFlight == \A t \in Threads : rsPc[t] \notin {"adding", "extending"}

\* the store a new process would load from the files has equal counts
LoadConsistent(dIndex, dMeta) ==
    NTotal(Load(dIndex, dMeta)[1]) = Len(Load(dIndex, dMeta)[2])

\* C1: after successful ingest calls the number of vectors in the index
\* equals the number of stored records, in the VectorStore (after a call that
\* returned normally) and in the retriever service (once no index_docs call
\* is in flight).
C1_Parity ==
    /\ (vsResult.op \in AddOps /\ vsResult.status = "ok")
           => NTotal(vsIndex) = Len(vsMetadata)
    /\ (program = "retriever_service" /\ NoIngestInFlight)
           => Len(index) = Len(doc_store)

\* C2: an ingest that fails in the embedder or in index.add is reported as
\* failed and leaves the stored vectors, the records and the files as they
\* were: a step that reports such a failure changes none of them (in the
\* retriever service a response sent straight from the idle state is such a
\* failure: a success is sent only after doc_store.extend).
C2_AtomicIngest ==
    [][/\ (vsResult'.op \in AddOps /\ vsResult'.err \in {"EmbedderFailure", "IndexAddFailure"})
           => /\ vsResult'.status = "error"
              /\ vsIndex'.vecs = vsIndex.vecs
              /\ vsMetadata' = vsMetadata
              /\ diskIndex' = diskIndex
              /\ diskMeta' = diskMeta
       /\ \A t \in Threads :
              (rsPc[t] = "idle" /\ rsResp'[t] # rsResp[t] /\ rsResp'[t].op = "index_docs")
              => /\ rsResp'[t].status >= 400
                 /\ index' = index
                 /\ doc_store' = doc_store]_vars

\* C2 witness: a failed ingest has just been reported on a store that already
\* holds vectors and records.
C2_Witness ==
    /\ vsResult.op \in AddOps
    /\ vsResult.err \in {"EmbedderFailure", "IndexAddFailure"}
    /\ NTotal(vsIndex) >= 1
    /\ Len(vsMetadata) >= 1

\* C3: a crash during save never leaves files from which a later load builds
\* a store with different vector and record counts: if the files loaded
\* consistently before the crashing call, they load consistently after it.
C3_CrashRestartConsistent ==
    [][(vsUp /\ ~vsUp' /\ LoadConsistent(diskIndex, diskMeta))
           => LoadConsistent(diskIndex', diskMeta')]_vars

\* C4: concurrent index_docs calls never interleave their halves: once they
\* have completed, vector count and record count agree and the record at
\* every position is the document whose vector is at that position.
C4_NoInterleaving ==
    (program = "retriever_service" /\ NoIngestInFlight)
        => /\ Len(index) = Len(doc_store)
           /\ \A i \in 1..Len(index) : index[i] = RawEmbed(doc_store[i])

\* C5: a retrieve that runs concurrently with an ingest never sees the index
\* hold a different number of vectors than doc_store holds records.
C5_ReaderSeesParity ==
    \A t \in Threads : rsPc[t] = "resolving" => Len(index) = Len(doc_store)

\* C6: a query with top_k = k >= 1 returns at most min(k, vector_count)
\* results, and exactly vector_count of them when the store holds fewer than k.
C6_KBound ==
    [][/\ (vsResult'.op = "query" /\ vsResult'.status = "ok" /\ vsResult'.n >= 1)
           => /\ Len(vsResult'.results) <= Min(vsResult'.n, NTotal(vsIndex'))
              /\ NTotal(vsIndex') < vsResult'.n
                     => Len(vsResult'.results) = NTotal(vsIndex')
       /\ \A t \in Threads :
              (rsPc[t] = "resolving" /\ rsPc'[t] = "idle" /\ rsResp'[t].status = 200)
              => Len(rsResp'[t].chunks) <= Min(rsResp'[t].n, Len(index))]_vars

\* C7: POST /retrieve on a store with no indexed documents answers with a
\* client error (4xx).
C7_EmptyStoreClientError ==
    [][\A t \in Threads :
           (rsPc[t] = "idle" /\ rsResp'[t] # rsResp[t]
              /\ rsResp'[t].op = "retrieve" /\ Len(index) = 0)
           => rsResp'[t].status \in 400..499]_vars

\* C8: an ingest of an empty document sequence fails with the explicit
\* empty-batch error (ValueError from add_documents, a client error from
\* /index-docs) and leaves vector count and record count unchanged.
C8_EmptyBatch ==
    [][/\ (vsResult'.op \in AddOps /\ vsResult'.n = 0)
           => /\ vsResult'.err = "ValueError"
              /\ NTotal(vsIndex') = NTotal(vsIndex)
              /\ Len(vsMetadata') = Len(vsMetadata)
       /\ \A t \in Threads :
              (rsPc[t] = "idle" /\ rsResp'[t] # rsResp[t]
                 /\ rsResp'[t].op = "index_docs" /\ rsResp'[t].n = 0)
              => /\ rsResp'[t].status \in 400..499
                 /\ Len(index') = Len(index)
                 /\ Len(doc_store') = Len(doc_store)]_vars

\* C9: /index-docs answers an empty batch with a client error (4xx) and an
\* embedder failure with a server error (5xx).
C9_StatusClasses ==
    \A t \in Threads :
        (rsResp[t].op = "index_docs" /\ rsResp[t].status # 200)
            => IF rsResp[t].n = 0
               THEN rsResp[t].status \in 400..499
               ELSE rsResp[t].status \in 500..599

\* C10: after an ingest whose save completed, the files load into a store
\* with the same vectors and the same records at the same positions, and
\* every query returns the same ranked results on both stores.
C10_SaveLoadRoundTrip ==
    (vsResult.op \in AddOps /\ vsResult.status = "ok")
        => LET loaded == Load(diskIndex, diskMeta)
           IN  /\ loaded[1].vecs = vsIndex.vecs
               /\ loaded[2] = vsMetadata
               /\ \A q \in Texts, k \in 1..MaxK :
                      Query(vsModel, loaded[1], loaded[2], q, k, "ok")
                          = Query(vsModel, vsIndex, vsMetadata, q, k, "ok")

\* C10 witness: a save of at least two vectors with their texts completed.
C10_Witness ==
    /\ vsResult.op = "add_texts_with_metadata"
    /\ vsResult.status = "ok"
    /\ NTotal(vsIndex) >= 2
    /\ diskIndex.kind = "faiss"
    /\ diskMeta.kind = "pkl"
    /\ Query(vsModel, vsIndex, vsMetadata, "a", 2, "ok").results # <<>>

\* both files exist and they do not parse or do not agree on the count
CorruptArtifacts(dIndex, dMeta) ==
    /\ dIndex.kind # "absent"
    /\ dMeta.kind # "absent"
    /\ \/ dIndex.kind # "faiss"
       \/ dMeta.kind # "pkl"
       \/ dIndex.ntotal # Len(dMeta.items)

\* C11: a load of existing artifacts that do not parse, or whose vector
\* count differs from their record count, fails: no freshly constructed
\* store (running, no call made yet) sits on top of such files.
C11_CorruptLoadFails ==
    (vsResult.op = "none" /\ CorruptArtifacts(diskIndex, diskMeta)) => ~vsUp

IsPrefix(s, t) == Len(s) <= Len(t) /\ SubSeq(t, 1, Len(s)) = s

\* C12: ingested data is durable.  A successful ingest leaves files that
\* load into the store it built, and what a new process would restore never
\* shrinks afterwards: the loadable vectors and records only grow, and the
\* documents the retriever service has acknowledged (no ingest in flight)
\* are still in the store after any step, a restart of the service included.
C12_Durability ==
    [][/\ (vsResult'.op \in AddOps /\ vsResult'.status = "ok")
           => /\ Load(diskIndex', diskMeta')[1].vecs = vsIndex'.vecs
              /\ Load(diskIndex', diskMeta')[2] = vsMetadata'
       /\ IsPrefix(Load(diskIndex, diskMeta)[1].vecs, Load(diskIndex', diskMeta')[1].vecs)
       /\ IsPrefix(Load(diskIndex, diskMeta)[2], Load(diskIndex', diskMeta')[2])
       /\ (program = "retriever_service" /\ NoIngestInFlight)
           => /\ IsPrefix(index, index')
              /\ IsPrefix(doc_store, doc_store')]_vars

\* C13: an ingest whose save fails is reported as failed and leaves the
\* in-memory index vectors and records as they were before the call.
C13_SaveFailureRollsBack ==
    [][(vsResult'.op \in AddOps /\ vsResult'.err = "PersistenceFailure")
           => /\ vsResult'.status = "error"
              /\ vsIndex'.vecs = vsIndex.vecs
              /\ vsMetadata' = vsMetadata]_vars

\* C14: VectorStore.query on a store that holds no vectors (index missing or
\* empty) returns an empty result list and raises nothing, for every top_k.
C14_EmptyStoreQuery ==
    (vsResult.op = "query" /\ NTotal(vsIndex) = 0)
        => /\ vsResult.status = "ok"
           /\ vsResult.results = <<>>

\* C14 witness: a query with the largest top_k has returned on a store that
\* holds no vectors.
C14_Witness ==
    /\ vsResult.op = "query"
    /\ vsResult.n = MaxK
    /\ vsResult.status = "ok"
    /\ NTotal(vsIndex) = 0

\* text t is the document whose vector sits at 0-based position p of vecs
IngestedAt(t, embedding, vecs, p) ==
    /\ t \in Texts
    /\ p >= 0
    /\ p < Len(vecs)
    /\ embedding = vecs[p + 1]

\* C15: every result of a query is the record of the document ingested at
\* the position the index returned for it: the text of the r-th tuple of
\* VectorStore.query, and each chunk of /retrieve, is the text whose
\* embedding the index holds at the hit's position.
C15_PositionResolution ==
    [][/\ (vsResult'.op = "query" /\ vsResult'.status = "ok")
           => \A r \in 1..Len(vsResult'.results) :
                  LET hits == IndexSearch("IP", vsIndex.vecs,
                                          Normalize(RawEmbedOf(vsModel, vsResult'.q)),
                                          vsResult'.n)
                      text == vsResult'.results[r][1]
                  IN  IngestedAt(text, Normalize(RawEmbedOf(vsModel, text)), vsIndex.vecs,
                                 hits[r][2])
       /\ \A t \in Threads :
              (rsPc[t] = "resolving" /\ rsPc'[t] = "idle" /\ rsResp'[t].status = 200)
              => LET kept == SelectSeq(rsLocal[t].hits, LAMBDA h : h[2] < Len(doc_store))
                 IN  \A j \in 1..Len(rsResp'[t].chunks) :
                         IngestedAt(rsResp'[t].chunks[j], RawEmbed(rsResp'[t].chunks[j]),
                                    index, kept[j][2])]_vars

\* C16: every vector an index holds has the dimension the index was created
\* with (also in the index file and in a loaded index), an index keeps its
\* dimension from call to call, and an ingest whose embeddings have another
\* dimension fails and changes neither the vector count nor the record count.
C16_DimensionInvariant ==
    [][/\ \A i \in 1..NTotal(vsIndex') : Len(vsIndex'.vecs[i]) = vsIndex'.d
       /\ diskIndex'.kind = "faiss"
              => Len(diskIndex'.codes) = diskIndex'.d * diskIndex'.ntotal
       /\ \A i \in 1..Len(index') : Len(index'[i]) = Dim
       /\ (vsIndex.present /\ vsIndex'.present /\ vsResult'.op # "none")
              => vsIndex'.d = vsIndex.d
       /\ (vsResult'.op \in AddOps /\ vsResult'.n >= 1
              /\ vsIndex.present /\ vsIndex.d # ModelDim(vsModel))
              => /\ vsResult'.status = "error"
                 /\ NTotal(vsIndex') = NTotal(vsIndex)
                 /\ Len(vsMetadata') = Len(vsMetadata)]_vars

\* C16 witness: an ingest has just failed on a loaded index that holds
\* vectors of another dimension than the embedder's.
C16_Witness ==
    /\ vsResult.op \in AddOps
    /\ vsResult.err = "IndexAddFailure"
    /\ vsIndex.present
    /\ NTotal(vsIndex) >= 1
    /\ vsIndex.d # ModelDim(vsModel)

\* C17: a query has no side effect: a step of VectorStore.query, and every
\* step of a /retrieve call (search, resolution, error response), leaves the
\* index, the records and the persisted files as they were, whether the
\* query returns results, returns nothing or fails.
C17_QueryNoSideEffect ==
    [][/\ vsResult'.op = "query"
           => /\ vsIndex' = vsIndex
              /\ vsMetadata' = vsMetadata
              /\ diskIndex' = diskIndex
              /\ diskMeta' = diskMeta
       /\ \A t \in Threads :
              (\/ (rsPc[t] = "idle" /\ rsPc'[t] = "resolving")
               \/ (rsPc[t] = "resolving" /\ rsPc'[t] = "idle" /\ rsResp'[t].op = "retrieve")
               \/ (rsPc[t] = "idle" /\ rsResp'[t] # rsResp[t] /\ rsResp'[t].op = "retrieve"))
              => /\ index' = index
                 /\ doc_store' = doc_store
                 /\ diskIndex' = diskIndex
                 /\ diskMeta' = diskMeta]_vars

\* C17 witness: a query has returned hits on a store whose memory is ahead
\* of its files, or a /retrieve call has answered while an ingest of another
\* thread was between index.add and doc_store.extend.
C17_Witness ==
    \/ /\ vsResult.op = "query"
       /\ vsResult.results # <<>>
       /\ NTotal(vsIndex) >= 1
       /\ diskIndex.kind # "faiss"
    \/ \E t, u \in Threads :
          /\ rsResp[t].op = "retrieve"
          /\ rsResp[t].status = 200
          /\ rsPc[u] = "extending"

\* C18: results are ordered best-first and the returned sequence keeps the
\* rank order of the search: the scores of the tuples of VectorStore.query
\* never increase and the r-th tuple carries the r-th best score; the hits
\* of /retrieve have distances that never decrease and its chunks are the
\* records of hits taken in increasing rank.
C18_BestFirst ==
    [][/\ (vsResult'.op = "query" /\ vsResult'.status = "ok")
           => LET res == vsResult'.results
                  hits == IndexSearch("IP", vsIndex.vecs,
                                      Normalize(RawEmbedOf(vsModel, vsResult'.q)),
                                      vsResult'.n)
              IN  /\ \A r, s \in 1..Len(res) : r < s => res[r][2] >= res[s][2]
                  /\ \A r \in 1..Len(res) : res[r][2] = hits[r][1]
       /\ \A t \in Threads :
              (rsPc[t] = "resolving" /\ rsPc'[t] = "idle" /\ rsResp'[t].status = 200)
              => LET hits == rsLocal[t].hits
                     chunks == rsResp'[t].chunks
                 IN  /\ \A r, s \in 1..Len(hits) : r < s => hits[r][1] <= hits[s][1]
                     /\ \E f \in [1..Len(chunks) -> 1..Len(hits)] :
                            /\ \A i, j \in 1..Len(chunks) : i < j => f[i] < f[j]
                            /\ \A j \in 1..Len(chunks) :
                                   /\ PyInRange(doc_store, hits[f[j]][2])
                                   /\ chunks[j] = PyGet(doc_store, hits[f[j]][2])]_vars

\* C18 witness: a query has returned two tuples with different scores, or a
\* /retrieve call two different chunks.
C18_Witness ==
    \/ /\ vsResult.op = "query"
       /\ Len(vsResult.results) = 2
       /\ vsResult.results[1][2] > vsResult.results[2][2]
    \/ \E t \in Threads :
          /\ rsResp[t].op = "retrieve"
          /\ rsResp[t].status = 200
          /\ Len(rsResp[t].chunks) = 2
          /\ rsResp[t].chunks[1] # rsResp[t].chunks[2]

\* C19: constructing a store when neither file exists yields a running store
\* with no index and no records; the first ingest that then succeeds creates
\* the index, with the embedder's dimension, holding exactly its batch.
C19_FreshLoad ==
    [][/\ (vsResult'.op = "none" /\ diskIndex = Absent /\ diskMeta = Absent /\ vsUp')
           => /\ vsIndex' = NoIndex
              /\ vsMetadata' = <<>>
       /\ (~vsIndex.present /\ vsResult'.op \in AddOps /\ vsResult'.status = "ok")
           => /\ vsIndex'.present
              /\ vsIndex'.d = ModelDim(vsModel)
              /\ NTotal(vsIndex') = vsResult'.n]_vars

\* C19 witness: the first successful ingest of a store constructed without
\* files has created the index and saved it.
C19_Witness ==
    /\ vsResult.op \in AddOps
    /\ vsResult.status = "ok"
    /\ vsIndex.present
    /\ NTotal(vsIndex) = vsResult.n
    /\ diskIndex.kind = "faiss"
    /\ diskIndex.ntotal = vsResult.n

\* C20: a query never returns partial or placeholder results: a successful
\* VectorStore.query returns no tuple for a position that has no record (and
\* so no empty text in its place), and a successful /retrieve returns one
\* chunk for every position the search found (it drops none of them), also
\* when it runs concurrently with an ingest.
C20_NoPlaceholders ==
    [][/\ (vsResult'.op = "query" /\ vsResult'.status = "ok")
           => LET hits == IndexSearch("IP", vsIndex.vecs,
                                      Normalize(RawEmbedOf(vsModel, vsResult'.q)),
                                      vsResult'.n)
              IN  \A r \in 1..Len(vsResult'.results) :
                      hits[r][2] >= Len(vsMetadata) => vsResult'.results[r][1] # ""
       /\ \A t \in Threads :
              (rsPc[t] = "resolving" /\ rsPc'[t] = "idle" /\ rsResp'[t].status = 200)
              => Len(rsResp'[t].chunks)
                     >= Cardinality({r \in 1..Len(rsLocal[t].hits) : rsLocal[t].hits[r][2] >= 0})]_vars

\* the step is a start of the retriever process, not an endpoint step
IsRSStartup ==
    /\ rsServed' = rsServed
    /\ \A t \in Threads : rsPc'[t] = "idle" /\ rsResp'[t] = NoResp

\* C21: the stores only grow by appending.  Between two startups no step
\* removes, replaces or reorders a stored vector or record (what was stored
\* stays a prefix of what is stored), and a successful ingest appends
\* exactly its batch, in input order, after the previous entries.
C21_AppendOnly ==
    [][/\ (vsUp /\ vsUp' /\ vsResult'.op # "none")
           => /\ IsPrefix(vsIndex.vecs, vsIndex'.vecs)
              /\ IsPrefix(vsMetadata, vsMetadata')
       /\ (vsResult'.op \in AddOps /\ vsResult'.status = "ok")
           => NTotal(vsIndex') = NTotal(vsIndex) + vsResult'.n
       /\ (vsResult'.op = "add_texts_with_metadata" /\ vsResult'.status = "ok")
           => /\ Len(vsMetadata') = Len(vsMetadata) + vsResult'.n
              /\ \A i \in 1..vsResult'.n :
                     vsIndex'.vecs[NTotal(vsIndex) + i]
                         = Normalize(RawEmbedOf(vsModel,
                               DictGet(vsMetadata'[Len(vsMetadata) + i], "text", "")))
       /\ (program = "retriever_service" /\ ~IsRSStartup)
           => /\ IsPrefix(index, index')
              /\ IsPrefix(doc_store, doc_store')]_vars

\* the stages a request goes through: STT only for an audio request
StagesOf(req) == IF req.audio_file THEN Stages ELSE Tail(Stages)

\* C22: the downstream calls of a request are a prefix of the fixed order
\* STT (audio only), brief, API, index-docs, retrieve, analyze, narrative,
\* TTS; every call but the last one returned 200; and a response other than
\* 200 from a stage before TTS is the last call of the request, which ends
\* with status 502
C22_StageOrdering ==
    program = "orchestrator" =>
        /\ Len(orCalls) <= Len(StagesOf(orReq))
        /\ \A i \in 1..Len(orCalls) :
               /\ orCalls[i].stage = StagesOf(orReq)[i]
               /\ i < Len(orCalls) => orCalls[i].status = 200
               /\ (orCalls[i].stage # "tts" /\ orCalls[i].status \notin {200, 0}) =>
                      /\ i = Len(orCalls)
                      /\ orPc = "done"
                      /\ orResp.status = 502
                      /\ orResp.kind = "error"
        /\ orPc \notin {"idle", "done"} =>
               /\ Len(orCalls) < Len(StagesOf(orReq))
               /\ orPc = StagesOf(orReq)[Len(orCalls) + 1]

\* a request that went through five stages and got a 500 from the sixth
C22_Witness ==
    /\ program = "orchestrator"
    /\ Len(orCalls) = 6
    /\ orCalls[6].stage = "narrative"
    /\ orCalls[6].status = 500
    /\ orResp.status = 502

FullRecordKeys == {"company_name", "ticker", "region", "sector", "history"}

ErrorRecordKeys == {"company_name", "error"}

\* C28: get_company_financials answers every request with one entry per
\* requested company name, in request order, each entry a full record or an
\* error record; no failure for a company ends the request or removes the
\* entry of another company
C28_OneEntryPerCompany ==
    (program = "api_service" /\ apiResp # NoApiResp) =>
        /\ apiResp.status = 200
        /\ apiResp.json.status = "success"
        /\ Len(apiResp.json.company_data) = Len(apiReq)
        /\ \A i \in 1..Len(apiReq) :
               LET entry == apiResp.json.company_data[i]
               IN  /\ entry.company_name = apiReq[i]
                   /\ DOMAIN entry \in {FullRecordKeys, ErrorRecordKeys}
                   /\ DOMAIN entry = FullRecordKeys => entry.ticker # NoTicker

\* a request for two companies where the first one failed and the second
\* one has its full record
C28_Witness ==
    /\ program = "api_service"
    /\ Len(apiReq) = 2
    /\ apiResp.status = 200
    /\ DOMAIN apiResp.json.company_data[1] = ErrorRecordKeys
    /\ DOMAIN apiResp.json.company_data[2] = FullRecordKeys

\* the strings held by a list
Range(s) == {s[i] : i \in 1..Len(s)}

\* C24: the chunks of every 200 answer of /retrieve are elements of
\* doc_store, and doc_store only ever grows by the documents of an
\* /index-docs call that answers 200 in the same step (it is emptied by a
\* restart of the server only), whatever the interleaving and top_k
C24_ChunksWereIndexed ==
    [][program = "retriever_service" =>
          /\ \A t \in Threads :
                 (rsResp'[t].op = "retrieve" /\ rsResp'[t].status = 200) =>
                     Range(rsResp'[t].chunks) \subseteq Range(doc_store')
          /\ doc_store' # doc_store =>
                 \/ IsRSStartup /\ doc_store' = <<>>
                 \/ \E t \in Threads :
                        /\ rsPc[t] = "extending"
                        /\ rsResp'[t].op = "index_docs"
                        /\ rsResp'[t].status = 200
                        /\ doc_store' = doc_store \o rsLocal[t].docs]_vars

\* a /retrieve that answered 200 with a chunk while an /index-docs call of
\* the other worker thread was between index.add and its response
C24_Witness ==
    /\ program = "retriever_service"
    /\ \E t \in Threads :
           /\ rsResp[t].op = "retrieve"
           /\ rsResp[t].status = 200
           /\ rsResp[t].chunks # <<>>
           /\ \E u \in Threads \ {t} : rsPc[u] \in {"adding", "extending"}

\* C23: when the STT service answered 200 with a non-empty transcription,
\* the request goes on to the initial-brief stage with that transcription,
\* stripped, as its query text; "STT returned empty text." is the answer
\* only when the transcription was empty
C23_SttTranscriptionUsed ==
    (/\ program = "orchestrator"
     /\ Len(orCalls) >= 1
     /\ orCalls[1].stage = "stt"
     /\ orCalls[1].status = 200) =>
        IF Strip(orCalls[1].text) # <<>>
        THEN /\ orResp.detail # "STT returned empty text."
             /\ Len(orCalls) = 1 => orPc = "brief" /\ orLocal.input_text = Strip(orCalls[1].text)
             /\ Len(orCalls) >= 2 => orCalls[2].text = Strip(orCalls[1].text)
        ELSE /\ orPc = "done"
             /\ orResp.status = 502
             /\ orResp.detail = "STT returned empty text."

\* the request has neither an audio file nor a non-blank input_text
NoInput(req) == ~req.audio_file /\ (req.input_text.isNone \/ Strip(req.input_text.s) = <<>>)

\* C25: a request with neither an audio file nor a non-blank input_text is
\* answered with 400 and no downstream call, no other request is answered
\* with 400, and the raw_text of every initial-brief call is non-blank
C25_InputValidation ==
    (program = "orchestrator" /\ orPc # "idle") =>
        /\ NoInput(orReq) => orPc = "done" /\ orResp.status = 400 /\ orCalls = <<>>
        /\ orResp.status = 400 => NoInput(orReq)
        /\ orPc = "brief" => Strip(orLocal.input_text) # <<>>
        /\ \A i \in 1..Len(orCalls) :
               orCalls[i].stage = "brief" => Strip(orCalls[i].text) # <<>>

\* a request without audio whose input_text is one blank was rejected
C25_Witness ==
    /\ program = "orchestrator"
    /\ orReq.input_text = SomeText(<<" ">>)
    /\ ~orReq.audio_file
    /\ orPc = "done"
    /\ orResp.status = 400
    /\ orCalls = <<>>

\* the positions of the TTS calls of the request
TtsCalls == {i \in 1..Len(orCalls) : orCalls[i].stage = "tts"}

\* C26: with response_mode "text" the TTS service is never called and a
\* 200 answer is the non-empty final narrative as JSON; with any other
\* response_mode no answer is a narrative JSON, the TTS service is called at
\* most once and with the initial brief as text, and a 200 answer is the
\* audio stream after exactly one TTS call
C26_ResponseMode ==
    program = "orchestrator" =>
        IF orReq.response_mode = "text"
        THEN /\ TtsCalls = {}
             /\ orPc # "tts"
             /\ orResp.kind # "audio"
             /\ orResp.status = 200 =>
                    /\ orResp.kind = "json"
                    /\ orResp.narrative # <<>>
                    /\ orResp.narrative = orLocal.narrative
                    /\ orCalls[Len(orCalls)] = Call("narrative", <<>>, 200)
        ELSE /\ orResp.kind # "json"
             /\ orResp.narrative = <<>>
             /\ Cardinality(TtsCalls) <= 1
             /\ \A i \in TtsCalls : orCalls[i].text = orLocal.brief /\ orLocal.brief # <<>>
             /\ orResp.status = 200 =>
                    /\ orResp.kind = "audio"
                    /\ Cardinality(TtsCalls) = 1
                    /\ orCalls[Len(orCalls)] = Call("tts", orLocal.brief, 200)

\* a request with the response_mode "both" of the Streamlit client that was
\* answered with the audio stream
C26_Witness ==
    /\ program = "orchestrator"
    /\ orReq.response_mode = "both"
    /\ orPc = "done"
    /\ orResp.kind = "audio"
    /\ Cardinality(TtsCalls) = 1

\* exactly one of the two files exists
OneArtifact(dIndex, dMeta) == (dIndex.kind = "absent") # (dMeta.kind = "absent")

\* C27: a store constructed when exactly one of the two files exists starts
\* with no index and no records, and the first ingest that then succeeds
\* leaves both files holding the new store only: its batch and nothing of
\* the surviving file.  The records file alone is never left by the store
\* itself (_save writes the index file first), so for that case _load and
\* _save are evaluated on the records file the store would have written.
C27_OneArtifactStartsEmpty ==
    [][/\ (vsResult'.op = "none" /\ vsUp' /\ OneArtifact(diskIndex, diskMeta))
           => /\ vsIndex' = NoIndex
              /\ vsMetadata' = <<>>
              /\ diskIndex' = diskIndex
              /\ diskMeta' = diskMeta
       /\ (/\ OneArtifact(diskIndex, diskMeta)
           /\ vsUp
           /\ vsResult'.op \in AddOps
           /\ vsResult'.status = "ok")
           => /\ diskIndex' = WriteIndex(vsIndex')
              /\ diskMeta' = PickleDump(vsMetadata')
              /\ diskIndex'.d = ModelDim(vsModel)
              /\ ~vsIndex.present => diskIndex'.ntotal = vsResult'.n
       /\ \A blob \in {PickleDump(vsMetadata), Truncated} :
              /\ Load(Absent, blob) = <<NoIndex, <<>>>>
              /\ vsIndex'.present =>
                     Save(vsIndex', vsMetadata', Absent, blob, "ok")
                         = <<WriteIndex(vsIndex'), PickleDump(vsMetadata')>>]_vars

\* a store that was constructed while the index file existed and the
\* records file did not
C27_Witness ==
    /\ vsUp
    /\ vsResult.op = "none"
    /\ diskIndex.kind = "faiss"
    /\ diskIndex.ntotal > 0
    /\ diskMeta = Absent
    /\ vsIndex = NoIndex
    /\ vsMetadata = <<>>

====
